---- MODULE Spec2Model ----
(***************************************************************************)
(* A model of pyart/retrieve/comp_z.py: composite_reflectivity(radar,      *)
(* rhv_filter, rhv_value) and its helper upsample(x).                      *)
(*                                                                         *)
(* Arrays are sequences (1-based here, 0-based in the source): a 2D array  *)
(* is a sequence of rows, a row a sequence of gates.  A masked array's     *)
(* cell is a record [v, m]: v the underlying datum, m TRUE when the cell   *)
(* is masked (invalid).  Plain arrays (longitude, latitude, correlation,   *)
(* azimuth, time) hold integers.  Correlations are in hundredths (0.95 is  *)
(* 95).  az_ids holds 1-based ray positions.                               *)
(*                                                                         *)
(* The function is one sequential pass; pc is its position:                *)
(*   "loop"      the for header, lines 55-67 ahead                         *)
(*   "reorder"   lines 70-81 ahead                                         *)
(*   "first"     lines 84-88 ahead                                         *)
(*   "normalize" lines 91-92 ahead                                         *)
(*   "stack"     lines 95-98 ahead                                         *)
(*   "done"      the function returned comp_dict                           *)
(*   "raised"    the function raised `error`                               *)
(*                                                                         *)
(* The verbose argument is never read by the source.  Every sweep has at   *)
(* least one ray and every index in sweep_number names a sweep of the      *)
(* volume, so the IndexError of lines 58 and 86 and a missing field are    *)
(* outside the volumes drawn here.                                         *)
(***************************************************************************)
EXTENDS Integers, Sequences, FiniteSets, TLC

\* ------------------------------------------------------------------ bounds

MaxSweeps == 2      \* sweeps in a volume
MaxRays == 2        \* rays of a small sweep
NGates == 2         \* gates of every ray

\* ------------------------------------------------------- program constants

SuperRes == 720             \* line 91: lon.shape[0] < 720
CoarseRes == 360            \* line 90: "if 360 scan, upsample to super res"
rhv_value_default == 95     \* line 16: rhv_value=0.95
default_fill_value == 1000000   \* numpy's fill value of a masked float (1e20)

\* ----------------------------------------------------------------- helpers

Range(s) == {s[i] : i \in 1..Len(s)}

\* All sequences of length n over the set S.
SeqsOf(S, n) == [1..n -> S]

\* The permutations of 1..n, as sequences.
PermSeqs(n) == {p \in [1..n -> 1..n] : \A i, j \in 1..n : p[i] = p[j] => i = j}

\* The shape of a 2D array: rows, gates.
Shape(a) == <<Len(a), IF Len(a) = 0 THEN 0 ELSE Len(a[1])>>

\* A half-open split sum, so that the recursion is logarithmic in depth.
RECURSIVE SumRange(_, _, _)
SumRange(s, lo, hi) ==
    IF lo > hi THEN 0
    ELSE IF lo = hi THEN s[lo]
    ELSE SumRange(s, lo, (lo + hi) \div 2) + SumRange(s, ((lo + hi) \div 2) + 1, hi)

\* ------------------------------------------------------------ the volumes
\* The radar volume is the function's input.  Its ray-indexed arrays are
\* shared by the sweeps; sweep s (0-based) owns the rays
\* sweep_start_ray_index[s] .. sweep_end_ray_index[s] (0-based, inclusive).

\* What a reflectivity gate can hold, with the correlation measured there:
\*   1  valid, correlation equal to the default threshold
\*   2  valid, correlation below the default threshold
\*   3  masked in the file, with a large underlying datum
\*   4  valid, small, high correlation
CellKinds ==
    << [v |-> 1, m |-> FALSE, rho |-> 95],
       [v |-> 2, m |-> FALSE, rho |-> 80],
       [v |-> 3, m |-> TRUE,  rho |-> 99],
       [v |-> 0, m |-> FALSE, rho |-> 99] >>

Kinds == 1..Len(CellKinds)

\* Gate g of a ray of kind k: the gates of a ray run through the kinds.
KindAt(k, g) == CellKinds[((k + g - 2) % Len(CellKinds)) + 1]

\* Longitude and latitude of gate g of the r-th ray of the volume: all
\* distinct, so that a row of a grid names the ray it came from.
LonAt(r, g) == 10 * r + g
LatAt(r, g) == 10 * r + g + 5
RayOfLon(x) == x \div 10

\* A sweep is described by its azimuths and the kind of each of its rays.
\* n rays starting the rotation `shift` rays after azimuth 0.
RotatedAz(n, shift) == [i \in 1..n |-> ((i - 1 + shift) % n) * 10]
RotatedKinds(n, k) == [i \in 1..n |-> ((k + i - 2) % Len(CellKinds)) + 1]

AzValues == {10, 190, 350}

\* Small sweeps of every azimuth order (ties included) and every content.
RichSweeps ==
    UNION {{[az |-> a, kinds |-> c] : a \in SeqsOf(AzValues, n), c \in SeqsOf(Kinds, n)}
           : n \in 1..MaxRays}

\* Small sweeps that start the rotation one ray after azimuth 0: of one ray
\* or of MaxRays rays, the first ray of one of the first three kinds.
BasicSweeps ==
    {[az |-> RotatedAz(n, 1), kinds |-> RotatedKinds(n, k)] : n \in {1, MaxRays}, k \in {1, 2, 3}}

\* A legacy-resolution and a super-resolution sweep, each starting the
\* rotation a third of the way round.
BigSweeps ==
    {[az |-> RotatedAz(n, n \div 3), kinds |-> RotatedKinds(n, 1)] : n \in {CoarseRes, SuperRes}}

\* The volumes: up to MaxSweeps small sweeps; one small sweep of any azimuth
\* order and content; one or two full-size sweeps.
SweepLists ==
    UNION {SeqsOf(BasicSweeps, N) : N \in 0..MaxSweeps}
    \cup SeqsOf(RichSweeps, 1)
    \cup UNION {SeqsOf(BigSweeps, N) : N \in {1, 2}}

\* The 0-based index of the first ray of the s-th sweep of the list.
RECURSIVE Offset(_, _)
Offset(sweeps, s) == IF s = 1 THEN 0 ELSE Offset(sweeps, s - 1) + Len(sweeps[s - 1].az)

\* The arrays of one sweep, whose first ray is the (off+1)-th of the volume.
ReflectivityOf(sw) ==
    [i \in 1..Len(sw.az) |->
        [g \in 1..NGates |-> [v |-> KindAt(sw.kinds[i], g).v, m |-> KindAt(sw.kinds[i], g).m]]]
CorrelationOf(sw) ==
    [i \in 1..Len(sw.az) |-> [g \in 1..NGates |-> KindAt(sw.kinds[i], g).rho]]
LongitudeOf(sw, off) == [i \in 1..Len(sw.az) |-> [g \in 1..NGates |-> LonAt(off + i, g)]]
LatitudeOf(sw, off) == [i \in 1..Len(sw.az) |-> [g \in 1..NGates |-> LatAt(off + i, g)]]
TimeOf(sw, off) == [i \in 1..Len(sw.az) |-> off + i]

\* The sweeps' arrays one after the other: the k first entries of parts.
RECURSIVE Joined(_, _)
Joined(parts, k) == IF k = 0 THEN <<>> ELSE Joined(parts, k - 1) \o parts[k]

MakeRadar(sweeps, order) ==
    [ sweep_number          |-> order,
      sweep_start_ray_index |-> [s \in 1..Len(sweeps) |-> Offset(sweeps, s)],
      sweep_end_ray_index   |-> [s \in 1..Len(sweeps) |-> Offset(sweeps, s + 1) - 1],
      azimuth        |-> Joined([s \in 1..Len(sweeps) |-> sweeps[s].az], Len(sweeps)),
      time           |-> Joined([s \in 1..Len(sweeps) |-> TimeOf(sweeps[s], Offset(sweeps, s))],
                                Len(sweeps)),
      gate_longitude |-> Joined([s \in 1..Len(sweeps) |-> LongitudeOf(sweeps[s], Offset(sweeps, s))],
                                Len(sweeps)),
      gate_latitude  |-> Joined([s \in 1..Len(sweeps) |-> LatitudeOf(sweeps[s], Offset(sweeps, s))],
                                Len(sweeps)),
      fields |->
        [ reflectivity |->
            Joined([s \in 1..Len(sweeps) |-> ReflectivityOf(sweeps[s])], Len(sweeps)),
          cross_correlation_ratio |->
            Joined([s \in 1..Len(sweeps) |-> CorrelationOf(sweeps[s])], Len(sweeps)) ] ]

\* sweep_number['data'] lists every sweep of the volume once, in any order.
SweepOrders(N) == {[i \in 1..N |-> p[i] - 1] : p \in PermSeqs(N)}

Volumes == UNION {{MakeRadar(sw, o) : o \in SweepOrders(Len(sw))} : sw \in SweepLists}

NSweeps(rad) == Len(rad.sweep_start_ray_index)
RaysOfSweep(rad, s) == rad.sweep_end_ray_index[s + 1] - rad.sweep_start_ray_index[s + 1] + 1

\* ---------------------------------------------------- the library's calls

\* a[s_idx:e_idx] on the leading axis (0-based, half-open).
Slice(a, s_idx, e_idx) == SubSeq(a, s_idx + 1, e_idx)

\* Radar.get_field(sweep, field_name): the sweep's rows of the field.
get_field(rad, sweep, field_name) ==
    Slice(rad.fields[field_name],
          rad.sweep_start_ray_index[sweep + 1],
          rad.sweep_end_ray_index[sweep + 1] + 1)

\* rho_hv < rhv_value, element by element.
LessThan(a, x) == [r \in 1..Len(a) |-> [g \in 1..Len(a[r]) |-> a[r][g] < x]]

\* np.ma.masked_where(condition, a): a, masked also where the condition holds.
masked_where(condition, a) ==
    [r \in 1..Len(a) |->
        [g \in 1..Len(a[r]) |-> [v |-> a[r][g].v, m |-> condition[r][g] \/ a[r][g].m]]]

IsSortedBy(az, p) == \A k \in 1..(Len(p) - 1) : az[p[k]] <= az[p[k + 1]]

StableOrder(az) ==
    SortSeq([i \in 1..Len(az) |-> i],
            LAMBDA a, b : az[a] < az[b] \/ (az[a] = az[b] /\ a < b))

\* np.argsort(az), kind='quicksort' by default: an order of the rays that
\* sorts the azimuths.  The default sort is not stable, so between rays of
\* equal azimuth any order can come out; without ties the order is unique.
argsort(az) ==
    IF Cardinality(Range(az)) = Len(az)
    THEN {StableOrder(az)}
    ELSE {p \in PermSeqs(Len(az)) : IsSortedBy(az, p)}

\* a[az_ids]: the rows of a in the order az_ids, a new array.
take(a, ids) == [k \in 1..Len(ids) |-> a[ids[k]]]

\* a[-1,:] = a[0,:]
SetLastRowToFirst(a) == [a EXCEPT ![Len(a)] = a[1]]

NoMaskRow(row) == [g \in 1..Len(row) |-> [v |-> row[g].v, m |-> FALSE]]
NoMask(a) == [r \in 1..Len(a) |-> NoMaskRow(a[r])]

\* np.kron(x, np.ones((2,1))): every row twice, rows 2i and 2i+1 (0-based)
\* from row i.  NumPy from 1.23 on returns a masked array with x's mask;
\* before, the mask was lost (subok says which NumPy the build has).
kron_ones_2_1(x, subok) ==
    [k \in 1..(2 * Len(x)) |->
        IF subok THEN x[(k + 1) \div 2] ELSE NoMaskRow(x[(k + 1) \div 2])]

\* np.concatenate([z_stack, z[np.newaxis,:,:]]) on masked arrays: the layers
\* one after the other, as a masked array whose input masks are not kept.
concatenate(stack, layers) ==
    [l \in 1..(Len(stack) + Len(layers)) |->
        NoMask(IF l <= Len(stack) THEN stack[l] ELSE layers[l - Len(stack)])]

MaxOf(S) == CHOOSE x \in S : \A y \in S : y <= x

ValidAt(stack, r, g) == {stack[l][r][g].v : l \in {j \in 1..Len(stack) : ~stack[j][r][g].m}}

\* MaskedArray.max(axis=0): the maximum of the unmasked values of each cell;
\* a cell masked in every layer is masked, its datum the fill value.
ma_max_axis0(stack) ==
    [r \in 1..Len(stack[1]) |->
        [g \in 1..Len(stack[1][r]) |->
            IF ValidAt(stack, r, g) = {}
            THEN [v |-> default_fill_value, m |-> TRUE]
            ELSE [v |-> MaxOf(ValidAt(stack, r, g)), m |-> FALSE]]]

\* to_datetime(num2date(time)).mean(): the mean, as numerator and denominator.
mean(t) == [num |-> SumRange(t, 1, Len(t)), den |-> Len(t)]

\* ------------------------------------------------------------------ state

VARIABLES
    radar,              \* the volume passed in (read, never written)
    rhv_filter,         \* the rhv_filter argument
    rhv_value,          \* the rhv_value argument, in hundredths
    numpy_kron_subok,   \* the build: np.kron keeps the mask (NumPy >= 1.23)
    pc,                 \* the position in the function
    error,              \* the exception raised, "" while none
    it,                 \* how many sweeps the for loop has taken
    sweep,              \* the loop variable
    s_idx, e_idx,       \* lines 58-59
    z,                  \* the sweep's reflectivity, lines 62-92
    lon, lat,           \* the sweep's grids, lines 70-81
    az, az_ids,         \* lines 74-76
    lon_0, lat_0,       \* lines 85-88
    z_stack,            \* lines 96-98
    compz,              \* line 101
    dtime,              \* lines 104-105
    bound,              \* the names among lon_0, lat_0, z_stack assigned so far
    fields_read         \* the field names asked of radar.get_field

vars == <<radar, rhv_filter, rhv_value, numpy_kron_subok, pc, error, it, sweep,
          s_idx, e_idx, z, lon, lat, az, az_ids, lon_0, lat_0, z_stack, compz,
          dtime, bound, fields_read>>

inputs == <<radar, rhv_filter, rhv_value, numpy_kron_subok>>

Init ==
    /\ radar \in Volumes
    /\ rhv_filter \in BOOLEAN
    /\ rhv_value = rhv_value_default
    /\ numpy_kron_subok \in BOOLEAN
    /\ pc = "loop"
    /\ error = ""
    /\ it = 0
    /\ sweep = -1
    /\ s_idx = -1
    /\ e_idx = -1
    /\ z = <<>>
    /\ lon = <<>>
    /\ lat = <<>>
    /\ az = <<>>
    /\ az_ids = <<>>
    /\ lon_0 = <<>>
    /\ lat_0 = <<>>
    /\ z_stack = <<>>
    /\ compz = <<>>
    /\ dtime = [num |-> 0, den |-> 0]
    /\ bound = {}
    /\ fields_read = {}

\* ------------------------------------------------------------- operations

\* np.kron with its arguments exchanged: the whole array twice.
upsample_tiled(x) ==
    [k \in 1..(2 * Len(x)) |->
        IF numpy_kron_subok THEN x[((k - 1) % Len(x)) + 1]
        ELSE NoMaskRow(x[((k - 1) % Len(x)) + 1])]

\* Lines 12-14.
upsample(x) == kron_ones_2_1(x, numpy_kron_subok)

\* The filter with <= for <: a correlation equal to the threshold is masked.
filtered_z_le(rad, sw, flt, value) ==
    IF flt
    THEN masked_where(LessThan(get_field(rad, sw, "cross_correlation_ratio"), value + 1),
                      get_field(rad, sw, "reflectivity"))
    ELSE get_field(rad, sw, "reflectivity")

\* Lines 62-67: the sweep's reflectivity, masked where the correlation is
\* below the threshold when the filter is on.
filtered_z(rad, sw, flt, value) ==
    IF flt
    THEN masked_where(LessThan(get_field(rad, sw, "cross_correlation_ratio"), value),
                      get_field(rad, sw, "reflectivity"))
    ELSE get_field(rad, sw, "reflectivity")

\* Lines 62 and 66: the fields an iteration reads.
fields_of_iteration(flt) ==
    IF flt THEN {"reflectivity", "cross_correlation_ratio"} ELSE {"reflectivity"}

\* Lines 55-67: the loop takes the next sweep, finds its rays and reads and
\* filters its reflectivity.
LoopNext ==
    /\ pc = "loop"
    /\ it < Len(radar.sweep_number)
    /\ it' = it + 1
    /\ sweep' = radar.sweep_number[it + 1]
    /\ s_idx' = radar.sweep_start_ray_index[sweep' + 1]
    /\ e_idx' = radar.sweep_end_ray_index[sweep' + 1] + 1
    /\ z' = filtered_z(radar, sweep', rhv_filter, rhv_value)
    /\ fields_read' = fields_read \cup fields_of_iteration(rhv_filter)
    /\ pc' = "reorder"
    /\ UNCHANGED <<inputs, error, lon, lat, az, az_ids, lon_0, lat_0, z_stack,
                   compz, dtime, bound>>

\* The reordering with line 80 left out: the longitudes stay in file order.
reordered_lon_kept(zz, lo, la, ids) ==
    [z |-> take(zz, ids), lon |-> lo, lat |-> take(la, ids)]

\* Lines 79-81: the reflectivity and the two grids, each in the order ids.
reordered(zz, lo, la, ids) ==
    [z |-> take(zz, ids), lon |-> take(lo, ids), lat |-> take(la, ids)]

\* Lines 70-81: the grids and azimuths of the sweep's rays, and all three
\* arrays put in the order of the azimuths.
Reorder ==
    /\ pc = "reorder"
    /\ az' = Slice(radar.azimuth, s_idx, e_idx)
    /\ \E ids \in argsort(Slice(radar.azimuth, s_idx, e_idx)) :
        \E r \in {reordered(z, Slice(radar.gate_longitude, s_idx, e_idx),
                            Slice(radar.gate_latitude, s_idx, e_idx), ids)} :
            /\ az_ids' = ids
            /\ z' = r.z
            /\ lon' = r.lon
            /\ lat' = r.lat
    /\ pc' = "first"
    /\ UNCHANGED <<inputs, error, it, sweep, s_idx, e_idx, lon_0, lat_0, z_stack,
                   compz, dtime, bound, fields_read>>

\* Lines 85-86 without the deep copy: the row is overwritten in the grid.
first_sweep_grid_in_place(grid) ==
    [kept |-> SetLastRowToFirst(grid), used |-> SetLastRowToFirst(grid)]

\* Lines 85-86 (and 87-88): a deep copy of the grid with its last row
\* overwritten by its first; the grid itself stays as it is.
first_sweep_grid(grid) == [kept |-> SetLastRowToFirst(grid), used |-> grid]

\* Lines 84-88: sweep 0's reordered grids are kept for the output.
StoreFirst ==
    /\ pc = "first"
    /\ IF sweep = 0
       THEN /\ lon_0' = first_sweep_grid(lon).kept
            /\ lon' = first_sweep_grid(lon).used
            /\ lat_0' = first_sweep_grid(lat).kept
            /\ lat' = first_sweep_grid(lat).used
            /\ bound' = bound \cup {"lon_0", "lat_0"}
       ELSE UNCHANGED <<lon_0, lat_0, lon, lat, bound>>
    /\ pc' = "normalize"
    /\ UNCHANGED <<inputs, error, it, sweep, s_idx, e_idx, z, az, az_ids, z_stack,
                   compz, dtime, fields_read>>

\* Lines 91-92: a sweep of fewer than 720 rays is upsampled.
normalized(zz, nrays) == IF nrays < SuperRes THEN upsample(zz) ELSE zz

Normalize ==
    /\ pc = "normalize"
    /\ z' = normalized(z, Len(lon))
    /\ pc' = "stack"
    /\ UNCHANGED <<inputs, error, it, sweep, s_idx, e_idx, lon, lat, az, az_ids,
                   lon_0, lat_0, z_stack, compz, dtime, bound, fields_read>>

\* Line 98 raises: z_stack was never assigned (UnboundLocalError), or the
\* layer's shape is not the stack's (np.concatenate's ValueError).
stack_error(sw, zz, stack, bnd) ==
    IF sw = 0 THEN ""
    ELSE IF "z_stack" \notin bnd THEN "UnboundLocalError"
    ELSE IF Shape(zz) # Shape(stack[1]) THEN "ValueError"
    ELSE ""

\* Lines 95-98: sweep 0 starts the stack, any other sweep is appended to it.
stacked(sw, zz, stack) == IF sw = 0 THEN <<zz>> ELSE concatenate(stack, <<zz>>)

Stack ==
    /\ pc = "stack"
    /\ stack_error(sweep, z, z_stack, bound) = ""
    /\ z_stack' = stacked(sweep, z, z_stack)
    /\ bound' = bound \cup {"z_stack"}
    /\ pc' = "loop"
    /\ UNCHANGED <<inputs, error, it, sweep, s_idx, e_idx, z, lon, lat, az, az_ids,
                   lon_0, lat_0, compz, dtime, fields_read>>

StackRaise ==
    /\ pc = "stack"
    /\ stack_error(sweep, z, z_stack, bound) # ""
    /\ error' = stack_error(sweep, z, z_stack, bound)
    /\ pc' = "raised"
    /\ UNCHANGED <<inputs, it, sweep, s_idx, e_idx, z, lon, lat, az, az_ids,
                   lon_0, lat_0, z_stack, compz, dtime, bound, fields_read>>

\* Lines 101-113: the loop is over; the maximum over the stack, the mean
\* time, and the dictionary of lon_0, lat_0, compz and dtime is returned.
Return ==
    /\ pc = "loop"
    /\ it = Len(radar.sweep_number)
    /\ "z_stack" \in bound
    /\ compz' = ma_max_axis0(z_stack)
    /\ dtime' = mean(radar.time)
    /\ pc' = "done"
    /\ UNCHANGED <<inputs, error, it, sweep, s_idx, e_idx, z, lon, lat, az, az_ids,
                   lon_0, lat_0, z_stack, bound, fields_read>>

\* Line 101 with z_stack never assigned: UnboundLocalError.
ReturnRaise ==
    /\ pc = "loop"
    /\ it = Len(radar.sweep_number)
    /\ "z_stack" \notin bound
    /\ error' = "UnboundLocalError"
    /\ pc' = "raised"
    /\ UNCHANGED <<inputs, it, sweep, s_idx, e_idx, z, lon, lat, az, az_ids,
                   lon_0, lat_0, z_stack, compz, dtime, bound, fields_read>>

Next ==
    \/ LoopNext
    \/ Reorder
    \/ StoreFirst
    \/ Normalize
    \/ Stack
    \/ StackRaise
    \/ Return
    \/ ReturnRaise

Spec == Init /\ [][Next]_vars

\* ================================================================ claims

Terminated == pc \in {"done", "raised"}

\* The values of a row, without the masks.
ValuesOf(row) == [g \in 1..Len(row) |-> row[g].v]

\* ---------------------------------------------------------------- C8
FilterExactOn(zin, rho) ==
    /\ Shape(z) = Shape(zin)
    /\ \A r \in 1..Len(zin) : \A g \in 1..Len(zin[r]) :
        IF rhv_filter
        THEN /\ z[r][g].m = (rho[r][g] < rhv_value \/ zin[r][g].m)
             /\ z[r][g].v = zin[r][g].v
        ELSE z[r][g] = zin[r][g]

ReorderStep ==
    /\ Len(az_ids') = e_idx - s_idx
    /\ Range(az_ids') = 1..(e_idx - s_idx)
    /\ \A k \in 1..(Len(az_ids') - 1) :
        radar.azimuth[s_idx + az_ids'[k]] <= radar.azimuth[s_idx + az_ids'[k + 1]]
    /\ Len(z') = Len(az_ids') /\ Len(lon') = Len(az_ids') /\ Len(lat') = Len(az_ids')
    /\ \A k \in 1..Len(az_ids') :
        /\ z'[k] = z[az_ids'[k]]
        /\ lon'[k] = radar.gate_longitude[s_idx + az_ids'[k]]
        /\ lat'[k] = radar.gate_latitude[s_idx + az_ids'[k]]

\* Rays of equal azimuth keep their order in the file.
StableStep ==
    \A k, l \in 1..Len(az_ids') :
        (k < l /\ radar.azimuth[s_idx + az_ids'[k]] = radar.azimuth[s_idx + az_ids'[l]])
            => az_ids'[k] < az_ids'[l]

\* C5 as amended: for every sweep the reordering step uses one permutation
\* of the rays under which the azimuth sequence is non-decreasing, and
\* applies that permutation to the reflectivity (values and mask), the
\* longitude grid and the latitude grid; the order of rays of equal azimuth
\* is not fixed.
C5_SamePermutation == [][pc = "reorder" => ReorderStep]_vars

\* C5 as claimed: the same, and rays of equal azimuth keep their original
\* relative order (a stable sort).
C5_StableSort == [][pc = "reorder" => (ReorderStep /\ StableStep)]_vars

\* A reordered sweep whose rays were out of order in the file and two of
\* which have the same azimuth.
C5_Witness ==
    /\ pc = "first"
    /\ \E k \in 1..Len(az_ids) : az_ids[k] # k
    /\ \E k, l \in 1..Len(az) : k # l /\ az[k] = az[l]

\* ---------------------------------------------------------------- C6
NormalizeStep ==
    IF Len(z) < SuperRes
    THEN /\ Len(z') = 2 * Len(z)
         /\ \A i \in 1..Len(z) :
             /\ Len(z'[2 * i - 1]) = Len(z[i])
             /\ Len(z'[2 * i]) = Len(z[i])
             /\ ValuesOf(z'[2 * i - 1]) = ValuesOf(z[i])
             /\ ValuesOf(z'[2 * i]) = ValuesOf(z[i])
             /\ numpy_kron_subok => (z'[2 * i - 1] = z[i] /\ z'[2 * i] = z[i])
    ELSE z' = z

RayOfRow(k) == RayOfLon(lon_0[k][1])

\* lon_0 and lat_0 are the grids of sweep 0 (rays s0+1 .. s0+n of the
\* volume) in azimuth order, but for the last row, which is the first row.
CanonicalGrid(s0, n) ==
    /\ Len(lon_0) = n /\ Len(lat_0) = n
    /\ lon_0[n] = lon_0[1] /\ lat_0[n] = lat_0[1]
    /\ \A k \in 1..n :
        /\ s0 < RayOfRow(k) /\ RayOfRow(k) <= s0 + n
        /\ lon_0[k] = radar.gate_longitude[RayOfRow(k)]
        /\ lat_0[k] = radar.gate_latitude[RayOfRow(k)]
    /\ Cardinality({RayOfRow(k) : k \in 1..(n - 1)}) = n - 1
    /\ \A k \in 1..(n - 2) : radar.azimuth[RayOfRow(k)] <= radar.azimuth[RayOfRow(k + 1)]
    /\ \A r \in ((s0 + 1)..(s0 + n)) \ {RayOfRow(k) : k \in 1..(n - 1)} :
        n > 1 => radar.azimuth[RayOfRow(n - 1)] <= radar.azimuth[r]

\* Right after lines 84-88 on sweep 0: lon and lat are still the reordered
\* grids of the sweep, and the kept grids differ from them in the last row
\* only.
GridCopied ==
    /\ lon = take(Slice(radar.gate_longitude, s_idx, e_idx), az_ids)
    /\ lat = take(Slice(radar.gate_latitude, s_idx, e_idx), az_ids)
    /\ \A k \in 1..(Len(lon) - 1) : lon_0[k] = lon[k] /\ lat_0[k] = lat[k]

\* C9: from the moment they are kept, and so in the dictionary returned, the
\* last row of lon_0 and of lat_0 equals the first row and the other rows
\* are the rows of sweep 0's grids in azimuth order; the overwrite is made
\* on a copy, the sweep's reordered lon and lat staying as they were.
C9_WrapClosure ==
    /\ "lon_0" \in bound =>
        CanonicalGrid(radar.sweep_start_ray_index[1], RaysOfSweep(radar, 0))
    /\ (pc = "normalize" /\ sweep = 0) => GridCopied
    /\ pc = "done" => "lon_0" \in bound

\* A returned grid of a two-sweep volume whose sweep 0 has 360 rays stored
\* out of azimuth order.
C9_Witness ==
    /\ pc = "done"
    /\ Len(radar.sweep_number) = 2
    /\ Len(lon_0) = CoarseRes
    /\ lon_0[Len(lon_0)] = lon_0[1]
    /\ lon_0[1] # radar.gate_longitude[radar.sweep_start_ray_index[1] + 1]
    /\ lon_0[1] # lon_0[2]

\* ---------------------------------------------------------------- C1
\* A sweep's field as it is stacked: filtered, put in the order ids,
\* normalized.
processed(sw, ids) ==
    normalized(take(filtered_z(radar, sw, rhv_filter, rhv_value), ids),
               RaysOfSweep(radar, sw))

ProcessedChoices(sw) ==
    {processed(sw, ids) :
        ids \in argsort(Slice(radar.azimuth, radar.sweep_start_ray_index[sw + 1],
                              radar.sweep_end_ray_index[sw + 1] + 1))}

\* The processed fields of the sweeps of `order`, one choice of sorting
\* permutation per sweep.
LayerChoices(order) ==
    {f \in [1..Len(order) -> UNION {ProcessedChoices(order[j]) : j \in 1..Len(order)}] :
        \A j \in 1..Len(order) : f[j] \in ProcessedChoices(order[j])}

ValidLayers(layers, r, g) == {l \in 1..Len(layers) : ~layers[l][r][g].m}

\* c is the masked-aware maximum of the layers.
IsMaskedMax(c, layers) ==
    /\ \A l \in 1..Len(layers) : Shape(layers[l]) = Shape(c)
    /\ \A r \in 1..Len(c) : \A g \in 1..Len(c[r]) :
        /\ c[r][g].m = (ValidLayers(layers, r, g) = {})
        /\ ~c[r][g].m =>
            /\ \E l \in ValidLayers(layers, r, g) : c[r][g].v = layers[l][r][g].v
            /\ \A l \in ValidLayers(layers, r, g) : layers[l][r][g].v <= c[r][g].v

\* C1: in the composite returned, every cell holds the maximum of the cell's
\* values over the sweeps in which it is valid (after filtering, reordering
\* and normalization), and is masked if and only if it is masked in every
\* sweep.
C1_MaskedMaximum ==
    pc = "done" => \E layers \in LayerChoices(radar.sweep_number) : IsMaskedMax(compz, layers)

\* ---------------------------------------------------------------- C2
\* C2: the longitude and latitude grids returned have as many rows as the
\* composite returned.
C2_SameAzimuthLength ==
    pc = "done" => (Len(lon_0) = Len(compz) /\ Len(lat_0) = Len(compz))

\* ---------------------------------------------------------------- C3
UnsupportedSweeps ==
    {s \in 0..(NSweeps(radar) - 1) : RaysOfSweep(radar, s) \notin {CoarseRes, SuperRes}}

\* C3: with a sweep of neither 360 nor 720 rays in the volume, the function
\* raises ShapeMismatchError and returns nothing, and such a sweep is never
\* upsampled nor brought to the stack.
C3_UnsupportedResolution ==
    UnsupportedSweeps # {} =>
        /\ pc # "done"
        /\ pc = "raised" => error = "ShapeMismatchError"
        /\ ~(pc = "stack" /\ sweep \in UnsupportedSweeps)

\* ---------------------------------------------------------------- C4
\* C4: on a volume of no sweeps the function raises EmptyVolumeError at once
\* and returns nothing.
C4_EmptyVolume ==
    (Len(radar.sweep_number) = 0 /\ pc # "loop") =>
        (pc = "raised" /\ error = "EmptyVolumeError")

\* ---------------------------------------------------------------- C7
\* The function run on the sweeps in the order `order`, the processed
\* fields given: the stack and the names bound after k sweeps, err set by
\* the first sweep that raises.
RECURSIVE StackAfter(_, _, _)
StackAfter(order, layers, k) ==
    IF k = 0 THEN [err |-> "", stack |-> <<>>, bnd |-> {}]
    ELSE LET before == StackAfter(order, layers, k - 1)
         IN IF before.err # "" THEN before
            ELSE IF stack_error(order[k], layers[k], before.stack, before.bnd) # ""
            THEN [before EXCEPT !.err = stack_error(order[k], layers[k], before.stack, before.bnd)]
            ELSE [err |-> "", stack |-> stacked(order[k], layers[k], before.stack),
                  bnd |-> before.bnd \cup {"z_stack"}]

\* What the caller gets: the composite, or an exception.
OutcomeOfStack(final) ==
    IF final.err = "" /\ "z_stack" \in final.bnd
    THEN [returned |-> TRUE, compz |-> ma_max_axis0(final.stack)]
    ELSE [returned |-> FALSE, compz |-> <<>>]

OutcomesOf(order) ==
    {OutcomeOfStack(StackAfter(order, layers, Len(order))) : layers \in LayerChoices(order)}

\* C7: whatever this call gave, a call with the same sweeps listed in any
\* other order gives the same composite, cell for cell.
C7_OrderIndependent ==
    Terminated =>
        \A q \in SweepOrders(Len(radar.sweep_number)) :
            [returned |-> pc = "done", compz |-> compz] \in OutcomesOf(q)

\* ---------------------------------------------------------------- C10
SameShapes(stack) == \A l \in 1..Len(stack) : Shape(stack[l]) = Shape(stack[1])

\* C10: for every non-empty sequence of sweep indices, the first sweep taken
\* initialises the stack and the kept grids, so that no name is unbound when
\* it is used, and after the k-th iteration the stack holds k layers of one
\* shape, the k-th layer holding the values of the k-th sweep taken.
C10_StackGrows ==
    Len(radar.sweep_number) >= 1 =>
        /\ error # "UnboundLocalError"
        /\ pc \in {"normalize", "stack"} => {"lon_0", "lat_0"} \subseteq bound
        /\ (pc \in {"loop", "done"} /\ it >= 1) =>
            /\ "z_stack" \in bound
            /\ Len(z_stack) = it
            /\ SameShapes(z_stack)
        /\ (pc = "loop" /\ it >= 1) =>
            \A r \in 1..Len(z) : ValuesOf(z_stack[it][r]) = ValuesOf(z[r])

====
